---- MODULE Spec2Model ----
(***************************************************************************)
(* Multi-period distribution planning: vehicles (recursos/clases.py        *)
(* Vehiculo), destinations (Destino), the heuristic filters, the traffic   *)
(* indicator, the assignment step (ModeloOpt.solve) and the state updater  *)
(* (recursos/heuristicas.py).                                              *)
(*                                                                         *)
(* Numbers: loads, inventories, consumption rates and distances are        *)
(* integers.  Python's true division a / b is kept as the fraction         *)
(* [num |-> a, den |-> b] (b > 0) and compared by cross-multiplication.    *)
(* The program computes in binary floating point: the result of every      *)
(* arithmetic operation is rounded to the nearest number with a            *)
(* significand of Mantisa bits (53 in the program), ties to even.          *)
(***************************************************************************)
EXTENDS Integers, Sequences, FiniteSets, TLC

\* ---------------------------------------------------------------- bounds
MaxVeh == 2      \* vehicles in the fleet
MaxDest == 2     \* destinations in the network
MaxInventario == 4  \* SpecClases: set_inventario is not called past this level
MaxFlota == 3    \* SpecFlota: vehicles in a fleet larger than the network
MaxTamano == 3   \* SpecValido: vehicles plus destinations of a run
Mantisa == 3     \* bits of the significand of a floating-point number

\* Sample values of the inputs.
Capacidades == {1, 2}     \* vehicle capacities
Inventarios == {0, 1, 2}  \* initial inventories
Consumos == {1, 2}        \* average consumption rates
Planes == {1, 2}          \* planned coverage times

\* ------------------------------------------------------------- fractions
Frac(n, d) == [num |-> n, den |-> d]
FracLt(a, b) == a.num * b.den < b.num * a.den
FracEq(a, b) == a.num * b.den = b.num * a.den
FracLe(a, b) == a.num * b.den <= b.num * a.den

\* The exponents of the floating-point numbers of a run.
Exponentes == -8..8

\* The fraction f = m * 2^e with 2^(Mantisa-1) <= |m| < 2^Mantisa, its m
\* rounded to the nearest integer, ties to even.
RedondearCon(f, e) ==
    LET s == IF f.num < 0 THEN -1 ELSE 1
        a == s * f.num * 2^(IF e < 0 THEN -e ELSE 0)
        b == f.den * 2^(IF e > 0 THEN e ELSE 0)
        m == IF 2 * (a % b) > b \/ (2 * (a % b) = b /\ (a \div b) % 2 = 1)
             THEN (a \div b) + 1 ELSE a \div b
    IN Frac(s * m * 2^(IF e > 0 THEN e ELSE 0), 2^(IF e < 0 THEN -e ELSE 0))

\* The exponent of a fraction other than 0.
ExponenteDe(f) ==
    {e \in Exponentes :
        LET s == IF f.num < 0 THEN -1 ELSE 1
            a == s * f.num * 2^(IF e < 0 THEN -e ELSE 0)
            b == f.den * 2^(IF e > 0 THEN e ELSE 0)
        IN 2^(Mantisa - 1) * b <= a /\ a < 2^Mantisa * b}

\* A fraction rounded to the nearest floating-point number, ties to even; a
\* number that needs no rounding is kept as it is written.
Redondear(f) ==
    CHOOSE r \in {IF x.num = 0 THEN x
                  ELSE CHOOSE y \in {IF FracEq(z, x) THEN x ELSE z :
                                       z \in {RedondearCon(x, e) :
                                                 e \in ExponenteDe(x)}} : TRUE :
                  x \in {f}} : TRUE

\* An integer result rounded the same way (an integer rounds to an integer).
RedondearEntero(n) ==
    CHOOSE k \in {r.num \div r.den : r \in {Redondear(Frac(n, 1))}} : TRUE

\* ------------------------------------------------------------- Vehiculo
\* Vehiculo.__init__: no argument is validated.
Vehiculo(identif, capacidad, carga, posicion) ==
    [identif |-> identif, capacidad |-> capacidad,
     carga |-> carga, posicion |-> posicion]

\* A set_carga that assigns before it validates.
set_carga_asigna_antes(veh, carga) ==
    [exc |-> IF carga <= veh.capacidad THEN "" ELSE "ValueError",
     obj |-> [veh EXCEPT !.carga = carga]]

\* Vehiculo.set_carga: the result is the exception raised ("" for none) and
\* the object after the call.
set_carga(veh, carga) ==
    IF carga <= veh.capacidad
    THEN [exc |-> "", obj |-> [veh EXCEPT !.carga = carga]]
    ELSE [exc |-> "ValueError", obj |-> veh]

\* Vehiculo.set_posicion
set_posicion(veh, posicion) == [veh EXCEPT !.posicion = posicion]

\* -------------------------------------------------------------- Destino
\* Destino._calcular_tiempo_cobertura (consumo_promedio = 0 raises)
calcular_tiempo_cobertura(d) ==
    Redondear(Frac(d.inventario, d.consumo_promedio))

\* Destino._calcular_demanda
calcular_demanda(d) ==
    RedondearEntero(
        RedondearEntero(d.consumo_promedio * d.tiempo_cobertura_plan)
            - d.inventario)

\* The guards of Destino.__init__: which exception construction raises.
DestinoExc(consumo_promedio, tiempo_cobertura_plan) ==
    IF consumo_promedio <= 0 \/ tiempo_cobertura_plan <= 0
    THEN "ValueError" ELSE ""

\* Destino.__init__ past its guards.
Destino(identif, consumo_promedio, tiempo_cobertura_plan, inventario) ==
    LET d0 == [identif |-> identif,
               consumo_promedio |-> consumo_promedio,
               tiempo_cobertura_plan |-> tiempo_cobertura_plan,
               inventario |-> inventario]
    IN [identif |-> identif,
        consumo_promedio |-> consumo_promedio,
        tiempo_cobertura_plan |-> tiempo_cobertura_plan,
        inventario |-> inventario,
        tiempo_cobertura |-> calcular_tiempo_cobertura(d0),
        demanda |-> calcular_demanda(d0)]

\* A set_inventario that forgets to recompute the demand.
set_inventario_sin_demanda(dest, carga) ==
    IF carga < 0
    THEN [exc |-> "ValueError", obj |-> dest]
    ELSE LET d1 == [dest EXCEPT !.inventario = RedondearEntero(@ + carga)]
         IN [exc |-> "",
             obj |-> [d1 EXCEPT !.tiempo_cobertura =
                                    calcular_tiempo_cobertura(d1)]]

\* Destino.set_inventario: additive, then both derived fields recomputed.
set_inventario(dest, carga) ==
    IF carga < 0
    THEN [exc |-> "ValueError", obj |-> dest]
    ELSE LET d1 == [dest EXCEPT !.inventario = RedondearEntero(@ + carga)]
         IN [exc |-> "",
             obj |-> [d1 EXCEPT !.tiempo_cobertura = calcular_tiempo_cobertura(d1),
                                !.demanda = calcular_demanda(d1)]]

\* ------------------------------------------------------ heuristic filters
\* A coverage filter that also keeps a destination exactly at its plan.
reduccion_destinosXcobertura_le(list_destinos) ==
    LET new_list == SelectSeq(list_destinos,
                        LAMBDA d : FracLe(d.tiempo_cobertura,
                                          Frac(d.tiempo_cobertura_plan, 1)))
    IN [lista |-> new_list,
        senal |-> IF Len(new_list) = 0 THEN "Stop" ELSE "Continue"]

\* reduccion_destinosXcobertura: the destinations whose stored coverage time
\* is strictly below their planned coverage time, and the Stop/Continue signal.
reduccion_destinosXcobertura(list_destinos) ==
    LET new_list == SelectSeq(list_destinos,
                        LAMBDA d : FracLt(d.tiempo_cobertura,
                                          Frac(d.tiempo_cobertura_plan, 1)))
    IN [lista |-> new_list,
        senal |-> IF Len(new_list) = 0 THEN "Stop" ELSE "Continue"]

Permutaciones(n) ==
    {p \in [1..n -> 1..n] : \A i, j \in 1..n : i # j => p[i] # p[j]}

\* DataFrame.sort_values(by='Cobertura'): the default sort is not stable, so
\* every ascending order of the rows is a possible outcome.
OrdenesPorCobertura(list_destinos) ==
    {p \in Permutaciones(Len(list_destinos)) :
        \A i \in 1..(Len(list_destinos) - 1) :
            FracLe(list_destinos[p[i]].tiempo_cobertura,
                   list_destinos[p[i + 1]].tiempo_cobertura)}

\* A fleet-size filter that takes the first rows without sorting them.
reduccion_destinosXvehiculos_sin_orden(list_destinos, list_vehiculos, orden) ==
    IF Len(list_destinos) = 0 \/ Len(list_vehiculos) = 0
    THEN [exc |-> "ValueError", lista |-> <<>>]
    ELSE IF Len(list_vehiculos) < Len(list_destinos)
    THEN LET top_ids == {list_destinos[i].identif : i \in 1..Len(list_vehiculos)}
         IN [exc |-> "",
             lista |-> SelectSeq(list_destinos,
                                 LAMBDA d : d.identif \in top_ids)]
    ELSE [exc |-> "", lista |-> list_destinos]

\* reduccion_destinosXvehiculos, with `orden` the row order after the sort.
reduccion_destinosXvehiculos(list_destinos, list_vehiculos, orden) ==
    IF Len(list_destinos) = 0 \/ Len(list_vehiculos) = 0
    THEN [exc |-> "ValueError", lista |-> <<>>]
    ELSE IF Len(list_vehiculos) < Len(list_destinos)
    THEN LET top_ids == {list_destinos[orden[i]].identif :
                            i \in 1..Len(list_vehiculos)}
         IN [exc |-> "",
             lista |-> SelectSeq(list_destinos,
                                 LAMBDA d : d.identif \in top_ids)]
    ELSE [exc |-> "", lista |-> list_destinos]

\* --------------------------------------------- traffic indicator calculator
\* The (vehicle, destination) pairs in the order of the nested loops
\* `for veh in list_vehiculos: for destino in list_destinos`, as positions in
\* the two lists.
Pares(list_vehiculos, list_destinos) ==
    [k \in 1..(Len(list_vehiculos) * Len(list_destinos)) |->
        [v |-> ((k - 1) \div Len(list_destinos)) + 1,
         d |-> ((k - 1) % Len(list_destinos)) + 1]]

\* The dictionary keys (veh.identif, destino.identif) in insertion order.
Claves(list_vehiculos, list_destinos) ==
    [k \in 1..(Len(list_vehiculos) * Len(list_destinos)) |->
        <<list_vehiculos[Pares(list_vehiculos, list_destinos)[k].v].identif,
          list_destinos[Pares(list_vehiculos, list_destinos)[k].d].identif>>]

Rango(s) == {s[i] : i \in DOMAIN s}

\* A cargo rule that unloads the larger of load and demand.
cantidad_mayor(carga_disponible, demanda_destino) ==
    IF carga_disponible > demanda_destino
    THEN carga_disponible ELSE demanda_destino

\* determinar_cant_mercancias_vehiculosXdestino, lines 136-139: the demand
\* when the load exceeds it, the whole load otherwise.
cantidad(carga_disponible, demanda_destino) ==
    IF carga_disponible > demanda_destino
    THEN demanda_destino ELSE carga_disponible

\* determinar_cant_mercancias_vehiculosXdestino: a dictionary is its keys in
\* insertion order (claves) and its values (val).
determinar_cant_mercancias_vehiculosXdestino(list_vehiculos, list_destinos) ==
    IF Len(list_vehiculos) = 0 \/ Len(list_destinos) = 0
    THEN [exc |-> "ValueError", claves |-> <<>>, val |-> <<>>]
    ELSE LET cl == Claves(list_vehiculos, list_destinos)
             pr == Pares(list_vehiculos, list_destinos)
         IN [exc |-> "",
             claves |-> cl,
             val |-> [c \in Rango(cl) |->
                        LET k == CHOOSE k \in DOMAIN cl :
                                    /\ cl[k] = c
                                    /\ \A m \in DOMAIN cl : cl[m] = c => m <= k
                        IN cantidad(list_vehiculos[pr[k].v].carga,
                                    list_destinos[pr[k].d].demanda)]]

\* An indicator check that lets a zero distance through.
fallo_par_sin_cero(veh, destino, matrix_distancias, params_carga_transportada) ==
    IF <<veh.identif, destino.identif>> \notin DOMAIN params_carga_transportada.val
    THEN "KeyError"
    ELSE IF <<veh.posicion, destino.identif>> \notin DOMAIN matrix_distancias
    THEN "KeyError"
    ELSE ""

\* determinar_indicador_trafico, lines 192-200: the exception one pair raises.
fallo_par(veh, destino, matrix_distancias, params_carga_transportada) ==
    IF <<veh.identif, destino.identif>> \notin DOMAIN params_carga_transportada.val
    THEN "KeyError"
    ELSE IF <<veh.posicion, destino.identif>> \notin DOMAIN matrix_distancias
    THEN "KeyError"
    ELSE IF matrix_distancias[<<veh.posicion, destino.identif>>] = 0
    THEN "ZeroDivisionError"
    ELSE ""

\* determinar_indicador_trafico: the first failing pair raises; otherwise the
\* dictionary of carga_transportada / distancia.
determinar_indicador_trafico(list_vehiculos, list_destinos, matrix_distancias, params_carga_transportada) ==
    IF Len(list_vehiculos) = 0 \/ Len(list_destinos) = 0
    THEN [exc |-> "ValueError", claves |-> <<>>, val |-> <<>>]
    ELSE LET cl == Claves(list_vehiculos, list_destinos)
             pr == Pares(list_vehiculos, list_destinos)
             f(k) == fallo_par(list_vehiculos[pr[k].v], list_destinos[pr[k].d],
                               matrix_distancias, params_carga_transportada)
             malos == {k \in DOMAIN cl : f(k) # ""}
         IN IF malos # {}
            THEN [exc |-> f(CHOOSE k \in malos : \A m \in malos : k <= m),
                  claves |-> <<>>, val |-> <<>>]
            ELSE [exc |-> "",
                  claves |-> cl,
                  val |-> [c \in Rango(cl) |->
                            LET k == CHOOSE k \in DOMAIN cl :
                                        /\ cl[k] = c
                                        /\ \A m \in DOMAIN cl : cl[m] = c => m <= k
                            IN Redondear(
                                 Frac(params_carga_transportada.val[c],
                                      matrix_distancias[
                                        <<list_vehiculos[pr[k].v].posicion,
                                          list_destinos[pr[k].d].identif>>]))]]

\* ---------------------------------------------------------- assignment step
FracAdd(a, b) == Frac(a.num * b.den + b.num * a.den, a.den * b.den)

\* The empty dictionary.
Vacio == [claves |-> <<>>, val |-> <<>>]

\* dict.get(clave, 0)
Get(dicc, clave) == IF clave \in DOMAIN dicc.val THEN dicc.val[clave] ELSE 0

\* A selection that keeps the last of the keys that tie for the maximum.
plan_max_ultimo(diccionario) ==
    LET cl == diccionario.claves
        k == CHOOSE k \in DOMAIN cl :
                /\ \A m \in DOMAIN cl :
                      FracLe(diccionario.val[cl[m]], diccionario.val[cl[k]])
                /\ \A m \in DOMAIN cl :
                      m > k => FracLt(diccionario.val[cl[m]], diccionario.val[cl[k]])
    IN cl[k]

\* max(diccionario, key=diccionario.get): the first key, in insertion order,
\* whose value no other value exceeds.
plan_max_trafico(diccionario) ==
    LET cl == diccionario.claves
        k == CHOOSE k \in DOMAIN cl :
                /\ \A m \in DOMAIN cl :
                      FracLe(diccionario.val[cl[m]], diccionario.val[cl[k]])
                /\ \A m \in DOMAIN cl :
                      m < k => FracLt(diccionario.val[cl[m]], diccionario.val[cl[k]])
    IN cl[k]

\* The feasible set of build_model: binary assign[i, j] with every destination
\* given exactly one vehicle and every vehicle exactly one destination, as the
\* map from a vehicle's id to its destination's id.
Emparejamientos(vehiculos_id, destinos_id) ==
    {m \in [Rango(vehiculos_id) -> Rango(destinos_id)] :
        /\ \A i, j \in Rango(vehiculos_id) : i # j => m[i] # m[j]
        /\ \A j \in Rango(destinos_id) : \E i \in Rango(vehiculos_id) : m[i] = j}

RECURSIVE FuncionObjetivo(_, _, _)
\* The objective of build_model at the matching m, summed over the vehicles ids.
FuncionObjetivo(m, params_FO, ids) ==
    IF ids = {} THEN Frac(0, 1)
    ELSE LET i == CHOOSE i \in ids : TRUE
         IN FracAdd(params_FO.val[<<i, m[i]>>],
                    FuncionObjetivo(m, params_FO, ids \ {i}))

\* model.optimize(): any matching of maximum objective, or no solution.
Optimizar(list_vehiculos, list_destinos, params_FO) ==
    LET vehiculos_id == [i \in DOMAIN list_vehiculos |-> list_vehiculos[i].identif]
        destinos_id == [j \in DOMAIN list_destinos |-> list_destinos[j].identif]
        E == Emparejamientos(vehiculos_id, destinos_id)
        obj(m) == FuncionObjetivo(m, params_FO, Rango(vehiculos_id))
    IN IF E = {}
       THEN {[Status |-> "INFEASIBLE", X |-> <<>>, ObjVal |-> Frac(0, 1)]}
       ELSE {[Status |-> "OPTIMAL", X |-> m, ObjVal |-> obj(m)] :
                m \in {m \in E : \A o \in E : FracLe(obj(o), obj(m))}}

\* ModeloOpt.solve, with `sol` the outcome of model.optimize().  In the branch
\* for several destinations the path of the results file is computed as
\* results/'resultado.csv' with results the dictionary just built: the
\* TypeError is caught by `except Exception` and raised as RuntimeError, after
\* plan_distribution has been stored on the object.
solve(list_vehiculos, list_destinos, params_FO, params_carga, sol) ==
    LET cl == Claves(list_vehiculos, list_destinos)
    IN IF \E k \in DOMAIN cl : cl[k] \notin DOMAIN params_FO.val
       THEN [exc |-> "KeyError", Ruteo |-> Vacio, Val_Obj_opt |-> Frac(0, 1),
             plan_distribution |-> Vacio]
       ELSE IF Len(list_destinos) = 1
       THEN IF Len(params_FO.claves) = 0
            THEN [exc |-> "ValueError", Ruteo |-> Vacio,
                  Val_Obj_opt |-> Frac(0, 1), plan_distribution |-> Vacio]
            ELSE LET pm == plan_max_trafico(params_FO)
                     plan == [claves |-> <<pm>>, val |-> (pm :> 1)]
                 IN IF pm \notin DOMAIN params_carga.val
                    THEN [exc |-> "KeyError", Ruteo |-> Vacio,
                          Val_Obj_opt |-> Frac(0, 1), plan_distribution |-> Vacio]
                    ELSE [exc |-> "", Ruteo |-> plan,
                          Val_Obj_opt |-> params_FO.val[pm],
                          plan_distribution |-> plan]
       ELSE IF sol.Status = "OPTIMAL"
       THEN [exc |-> "RuntimeError", Ruteo |-> Vacio, Val_Obj_opt |-> Frac(0, 1),
             plan_distribution |->
                [claves |-> cl,
                 val |-> [c \in Rango(cl) |->
                            IF sol.X[c[1]] = c[2] THEN 1 ELSE 0]]]
       ELSE [exc |-> "RuntimeError", Ruteo |-> Vacio, Val_Obj_opt |-> Frac(0, 1),
             plan_distribution |-> Vacio]

\* ------------------------------------------------------------ state updater
RECURSIVE actualizar_destinos_desde(_, _, _, _)
\* The nested loops of actualizar_destinos from step s on: step s is the pair
\* (destination, assignment) in loop order.  An exception ends the update.
actualizar_destinos_desde(destinos, carga_veh_destino, ruteo, s) ==
    LET nk == Len(ruteo.claves)
    IN IF s > Len(destinos) * nk
       THEN [exc |-> "", lista |-> destinos]
       ELSE LET i == ((s - 1) \div nk) + 1
                asignacion == ruteo.claves[((s - 1) % nk) + 1]
            IN IF destinos[i].identif = asignacion[2] /\ ruteo.val[asignacion] = 1
               THEN LET r == set_inventario(destinos[i],
                                            Get(carga_veh_destino, asignacion))
                        act == [destinos EXCEPT ![i] = r.obj]
                    IN IF r.exc # ""
                       THEN [exc |-> r.exc, lista |-> act]
                       ELSE actualizar_destinos_desde(act, carga_veh_destino,
                                                      ruteo, s + 1)
               ELSE actualizar_destinos_desde(destinos, carga_veh_destino,
                                              ruteo, s + 1)

\* actualizar_destinos
actualizar_destinos(destinos, carga_veh_destino, resultado) ==
    actualizar_destinos_desde(destinos, carga_veh_destino, resultado.Ruteo, 1)

\* An update that parks an emptied vehicle at the destination, not refilled.
descargar_sin_regreso(veh, dest_id, carga_entregada) ==
    LET carga_actual == RedondearEntero(veh.carga - carga_entregada)
        r == set_carga(veh, carga_actual)
    IN IF r.exc # "" THEN r
       ELSE [exc |-> "", obj |-> set_posicion(r.obj, dest_id)]

\* actualizar_vehiculos, lines 250-259: one realized assignment of veh.
descargar(veh, dest_id, carga_entregada) ==
    LET carga_actual == RedondearEntero(veh.carga - carga_entregada)
    IN IF carga_actual = 0
       THEN LET r == set_carga(veh, veh.capacidad)
            IN IF r.exc # "" THEN r
               ELSE [exc |-> "", obj |-> set_posicion(r.obj, 0)]
       ELSE LET r == set_carga(veh, carga_actual)
            IN IF r.exc # "" THEN r
               ELSE [exc |-> "", obj |-> set_posicion(r.obj, dest_id)]

RECURSIVE actualizar_vehiculos_desde(_, _, _, _)
\* The nested loops of actualizar_vehiculos from step s on.
actualizar_vehiculos_desde(vehs, carga_veh_destino, ruteo, s) ==
    LET nk == Len(ruteo.claves)
    IN IF s > Len(vehs) * nk
       THEN [exc |-> "", lista |-> vehs]
       ELSE LET i == ((s - 1) \div nk) + 1
                asignacion == ruteo.claves[((s - 1) % nk) + 1]
            IN IF vehs[i].identif = asignacion[1] /\ ruteo.val[asignacion] = 1
               THEN LET r == descargar(vehs[i], asignacion[2],
                                       Get(carga_veh_destino, asignacion))
                        act == [vehs EXCEPT ![i] = r.obj]
                    IN IF r.exc # ""
                       THEN [exc |-> r.exc, lista |-> act]
                       ELSE actualizar_vehiculos_desde(act, carga_veh_destino,
                                                       ruteo, s + 1)
               ELSE actualizar_vehiculos_desde(vehs, carga_veh_destino,
                                               ruteo, s + 1)

\* An update that does not compare the vehicle's id with the assignment's.
actualizar_vehiculos_sin_id(vehs, carga_veh_destino, resultado) ==
    LET hechos == {c \in Rango(resultado.Ruteo.claves) : resultado.Ruteo.val[c] = 1}
    IN IF hechos = {}
       THEN [exc |-> "", lista |-> vehs]
       ELSE LET c == CHOOSE c \in hechos : TRUE
            IN [exc |-> "",
                lista |-> [i \in DOMAIN vehs |->
                             descargar(vehs[i], c[2],
                                       Get(carga_veh_destino, c)).obj]]

\* actualizar_vehiculos
actualizar_vehiculos(vehs, carga_veh_destino, resultado) ==
    actualizar_vehiculos_desde(vehs, carga_veh_destino, resultado.Ruteo, 1)

\* -------------------------------------------------------------------- state
VARIABLES
    vehiculos,          \* the fleet: the list of Vehiculo objects
    destinos,           \* the network: the list of Destino objects
    matrix_distancias,  \* (position, destination id) -> distance
    estado,             \* the orchestrator: "Filtering", "Terminal", "Error"
    ultimo,             \* what the last period computed, and where it ended
    previo,             \* the fleet and the network before the last operation
    llamada             \* the last method called on an object, and its outcome

vars == <<vehiculos, destinos, matrix_distancias, estado, ultimo, previo, llamada>>

NingunPeriodo ==
    [etapa |-> "Inicio", exc |-> "", senal |-> "", cobertura |-> <<>>,
     candidatos |-> <<>>, params_carga |-> Vacio, params_FO |-> Vacio,
     Ruteo |-> Vacio, Val_Obj_opt |-> Frac(0, 1), plan_distribution |-> Vacio,
     entregados |-> {}]

NingunaLlamada == [op |-> "", idx |-> 0, arg |-> 0, exc |-> ""]

\* Locations on a line: the depot at 0, destination j at j.
Distancia1D(p, d) == IF p > d THEN p - d ELSE d - p

\* The distance matrices of the runs: every (location, destination) key with
\* its distance on the line; the same with only the rows of the depot; and
\* the same with a zero distance from the depot to destination 1.
Matrices(m) ==
    LET completa == [k \in (0..m) \X (1..m) |-> Distancia1D(k[1], k[2])]
    IN {completa,
        [k \in {0} \X (1..m) |-> Distancia1D(k[1], k[2])],
        [completa EXCEPT ![<<0, 1>>] = 0]}

\* The orders of a list of n vehicle ids: ascending and descending.
Ordenes(n) == {[i \in 1..n |-> i], [i \in 1..n |-> n + 1 - i]}

\* ------------------------------------------------------- planning loop
\* A fleet of valid vehicles of one capacity at the depot, in ascending or
\* descending order of id (0 <= carga <= capacidad), a network
\* of valid destinations (inventario >= 0) that share their planned coverage
\* time, and a distance matrix.
Init ==
    /\ \E n \in 1..MaxVeh, m \in 1..MaxDest :
         /\ \E ids \in Ordenes(n),
               cap \in Capacidades :
              \E cargas \in [1..n -> 0..cap] :
                 vehiculos = [i \in 1..n |->
                                Vehiculo(ids[i], cap, cargas[i], 0)]
         /\ \E cons \in [1..m -> Consumos],
               plan \in Planes,
               invs \in [1..m -> Inventarios] :
              destinos = [j \in 1..m |-> Destino(j, cons[j], plan, invs[j])]
         /\ matrix_distancias \in Matrices(m)
    /\ estado = "Filtering"
    /\ ultimo = NingunPeriodo
    /\ previo = [vehiculos |-> vehiculos, destinos |-> destinos]
    /\ llamada = NingunaLlamada

\* One period of the orchestrator: coverage filter (Stop ends the run),
\* fleet-size filter, cargo and indicators, assignment, update.  A failure of
\* any step ends the run with the exception.
Periodo ==
    /\ estado = "Filtering"
    /\ previo' = [vehiculos |-> vehiculos, destinos |-> destinos]
    /\ UNCHANGED <<matrix_distancias, llamada>>
    /\ \E cob \in {reduccion_destinosXcobertura(destinos)} :
       IF cob.senal = "Stop"
       THEN /\ estado' = "Terminal"
            /\ ultimo' = [NingunPeriodo EXCEPT !.etapa = "Filtering",
                              !.senal = cob.senal, !.cobertura = cob.lista,
                              !.entregados = ultimo.entregados]
            /\ UNCHANGED <<vehiculos, destinos>>
       ELSE \E orden \in OrdenesPorCobertura(cob.lista) :
            \E flt \in {reduccion_destinosXvehiculos(cob.lista, vehiculos, orden)} :
            \E carga \in {determinar_cant_mercancias_vehiculosXdestino(
                              vehiculos, flt.lista)} :
            \E ind \in {determinar_indicador_trafico(
                              vehiculos, flt.lista, matrix_distancias, carga)} :
            \E base \in {[NingunPeriodo EXCEPT !.senal = cob.senal,
                              !.cobertura = cob.lista,
                              !.candidatos = flt.lista,
                              !.params_carga = carga,
                              !.entregados = ultimo.entregados]} :
            IF ind.exc # ""
            THEN /\ estado' = "Error"
                 /\ ultimo' = [base EXCEPT !.etapa = "Computing", !.exc = ind.exc]
                 /\ UNCHANGED <<vehiculos, destinos>>
            ELSE \E sol \in Optimizar(vehiculos, flt.lista, ind) :
                 \E res \in {solve(vehiculos, flt.lista, ind, carga, sol)} :
                 \E conFO \in {[base EXCEPT !.params_FO = ind,
                                   !.plan_distribution = res.plan_distribution]} :
                 IF res.exc # ""
                 THEN /\ estado' = "Error"
                      /\ ultimo' = [conFO EXCEPT !.etapa = "Solving",
                                                 !.exc = res.exc]
                      /\ UNCHANGED <<vehiculos, destinos>>
                 ELSE \E ad \in {actualizar_destinos(destinos, carga, res)} :
                      \E av \in {actualizar_vehiculos(vehiculos, carga, res)} :
                      \E fin \in {[conFO EXCEPT !.etapa = "Updating",
                                      !.Ruteo = res.Ruteo,
                                      !.Val_Obj_opt = res.Val_Obj_opt,
                                      !.entregados =
                                          @ \cup {c[2] : c \in
                                             {k \in Rango(res.Ruteo.claves) :
                                                 res.Ruteo.val[k] = 1}}]} :
                      IF ad.exc # ""
                      THEN /\ destinos' = ad.lista
                           /\ UNCHANGED vehiculos
                           /\ estado' = "Error"
                           /\ ultimo' = [fin EXCEPT !.exc = ad.exc]
                      ELSE /\ destinos' = ad.lista
                           /\ vehiculos' = av.lista
                           /\ estado' = IF av.exc # "" THEN "Error"
                                        ELSE "Filtering"
                           /\ ultimo' = [fin EXCEPT !.exc = av.exc]

Next == Periodo

Spec == Init /\ [][Next]_vars

\* Sample values of runs whose products and quotients need rounding.
ConsumosReales == {1, 3}
PlanesReales == {1, 3}

\* The complete distance matrices of m destinations, every distance
\* positive: the distances on the line with a vehicle at a destination one
\* unit from it, and every distance one unit.
MatricesPositivas(m) ==
    {[k \in (0..m) \X (1..m) |->
         IF k[1] = k[2] THEN 1 ELSE Distancia1D(k[1], k[2])],
     [k \in (0..m) \X (1..m) |-> 1]}

\* Runs on valid inputs: vehicles of one positive capacity at the depot
\* with 0 <= carga <= capacidad, destinations that share their consumption rate and planned
\* coverage time with inventario >= 0, and a fully populated distance matrix
\* of positive distances.
InitValido ==
    /\ \E n \in 1..MaxVeh, m \in 1..MaxDest :
         /\ n + m <= MaxTamano
         /\ \E cap \in Capacidades :
              \E cargas \in [1..n -> 0..cap] :
                 vehiculos = [i \in 1..n |-> Vehiculo(i, cap, cargas[i], 0)]
         /\ \E con \in ConsumosReales,
               plan \in PlanesReales,
               invs \in [1..m -> Inventarios] :
              destinos = [j \in 1..m |-> Destino(j, con, plan, invs[j])]
         /\ matrix_distancias \in MatricesPositivas(m)
    /\ estado = "Filtering"
    /\ ultimo = NingunPeriodo
    /\ previo = [vehiculos |-> vehiculos, destinos |-> destinos]
    /\ llamada = NingunaLlamada

SpecValido == InitValido /\ [][Next]_vars

\* The loop is a sequential program: a period that can run does run.
SpecJusta == SpecValido /\ WF_vars(Periodo)

\* ------------------------------------------- the loop with larger fleets
\* As Init, with fleets of up to MaxFlota vehicles in ascending order of id
\* that carry one common load, and the complete distance matrix.
InitFlota ==
    /\ \E n \in 1..MaxFlota, m \in 1..MaxDest :
         /\ \E cap \in Capacidades :
              \E c \in 0..cap :
                 vehiculos = [i \in 1..n |-> Vehiculo(i, cap, c, 0)]
         /\ \E cons \in [1..m -> Consumos],
               plan \in Planes,
               invs \in [1..m -> Inventarios] :
              destinos = [j \in 1..m |-> Destino(j, cons[j], plan, invs[j])]
         /\ matrix_distancias = [k \in (0..m) \X (1..m) |-> Distancia1D(k[1], k[2])]
    /\ estado = "Filtering"
    /\ ultimo = NingunPeriodo
    /\ previo = [vehiculos |-> vehiculos, destinos |-> destinos]
    /\ llamada = NingunaLlamada

SpecFlota == InitFlota /\ [][Next]_vars

\* --------------------------------------------------- the objects alone
\* Arguments of the constructors and of the setters, valid and invalid.
CargasArg == {-1, 0, 1, 2, 3}
PosicionesArg == {0, 1}
TasasArg == {0, 1, 2}
InventariosArg == {-1, 0, 1, 2}

\* One vehicle and one destination constructed with any arguments; a
\* destination whose construction raises does not exist.
InitClases ==
    /\ \E capacidad \in Capacidades, carga \in CargasArg, posicion \in PosicionesArg :
         vehiculos = <<Vehiculo(1, capacidad, carga, posicion)>>
    /\ \E consumo \in TasasArg, plan \in TasasArg, inventario \in InventariosArg :
         IF DestinoExc(consumo, plan) # ""
         THEN /\ destinos = <<>>
              /\ llamada = [op |-> "Destino", idx |-> 0, arg |-> inventario,
                            exc |-> DestinoExc(consumo, plan)]
         ELSE /\ destinos = <<Destino(1, consumo, plan, inventario)>>
              /\ llamada = [op |-> "Destino", idx |-> 1, arg |-> inventario,
                            exc |-> ""]
    /\ matrix_distancias = <<>>
    /\ estado = "Objetos"
    /\ ultimo = NingunPeriodo
    /\ previo = [vehiculos |-> vehiculos, destinos |-> destinos]

\* veh.set_carga(carga)
LlamarSetCarga ==
    /\ estado = "Objetos"
    /\ \E i \in DOMAIN vehiculos, carga \in CargasArg :
         \E r \in {set_carga(vehiculos[i], carga)} :
            /\ vehiculos' = [vehiculos EXCEPT ![i] = r.obj]
            /\ llamada' = [op |-> "set_carga", idx |-> i, arg |-> carga,
                           exc |-> r.exc]
    /\ previo' = [vehiculos |-> vehiculos, destinos |-> destinos]
    /\ UNCHANGED <<destinos, matrix_distancias, estado, ultimo>>

\* veh.set_posicion(posicion)
LlamarSetPosicion ==
    /\ estado = "Objetos"
    /\ \E i \in DOMAIN vehiculos, posicion \in PosicionesArg :
         /\ vehiculos' = [vehiculos EXCEPT ![i] = set_posicion(vehiculos[i], posicion)]
         /\ llamada' = [op |-> "set_posicion", idx |-> i, arg |-> posicion,
                        exc |-> ""]
    /\ previo' = [vehiculos |-> vehiculos, destinos |-> destinos]
    /\ UNCHANGED <<destinos, matrix_distancias, estado, ultimo>>

\* destino.set_inventario(carga)
LlamarSetInventario ==
    /\ estado = "Objetos"
    /\ \E j \in DOMAIN destinos, carga \in InventariosArg :
         /\ destinos[j].inventario + carga <= MaxInventario
         /\ \E r \in {set_inventario(destinos[j], carga)} :
              /\ destinos' = [destinos EXCEPT ![j] = r.obj]
              /\ llamada' = [op |-> "set_inventario", idx |-> j, arg |-> carga,
                             exc |-> r.exc]
    /\ previo' = [vehiculos |-> vehiculos, destinos |-> destinos]
    /\ UNCHANGED <<vehiculos, matrix_distancias, estado, ultimo>>

NextClases == LlamarSetCarga \/ LlamarSetPosicion \/ LlamarSetInventario

SpecClases == InitClases /\ [][NextClases]_vars

\* ------------------------------------------------------------ properties
Min(a, b) == IF a < b THEN a ELSE b

\* The object of a list with a given id.
PorId(lista, id) == CHOOSE x \in Rango(lista) : x.identif = id

\* The place of a vehicle id in the fleet as the last operation found it.
LugarEnFlota(id) ==
    CHOOSE i \in DOMAIN previo.vehiculos : previo.vehiculos[i].identif = id

\* The (vehicle id, destination id) pairs the last period realized.
Realizados == {c \in Rango(ultimo.Ruteo.claves) : ultimo.Ruteo.val[c] = 1}

\* The last period went past the filters.
PasoFiltros == ultimo.etapa \in {"Computing", "Solving", "Updating"}

\* The last period reached the assignment step.
LlegoAAsignar == ultimo.etapa \in {"Solving", "Updating"}

SinCambios == vehiculos = previo.vehiculos /\ destinos = previo.destinos

C2_SinNegativos ==
    /\ \A i \in DOMAIN vehiculos : vehiculos[i].carga >= 0
    /\ \A j \in DOMAIN destinos : destinos[j].inventario >= 0

\* C2 witness: a period in which a vehicle unloaded all it carried at a
\* destination that asked for more.
C2_Testigo ==
    /\ ultimo.etapa = "Updating"
    /\ \E c \in Realizados :
          /\ PorId(previo.vehiculos, c[1]).carga > 0
          /\ PorId(previo.vehiculos, c[1]).carga
                < PorId(previo.destinos, c[2]).demanda

\* C3: every destination, from its construction on and after every call of
\* set_inventario, has tiempo_cobertura = inventario / consumo_promedio and
\* demanda = consumo_promedio * tiempo_cobertura_plan - inventario.
C3_DerivadosAlDia ==
    \A j \in DOMAIN destinos :
        /\ destinos[j].tiempo_cobertura.num * destinos[j].consumo_promedio
              = destinos[j].inventario * destinos[j].tiempo_cobertura.den
        /\ destinos[j].tiempo_cobertura.den # 0
        /\ destinos[j].demanda
              = destinos[j].consumo_promedio * destinos[j].tiempo_cobertura_plan
                    - destinos[j].inventario

\* C3 witness: a set_inventario call that added a positive amount.
C3_Testigo ==
    /\ llamada.op = "set_inventario"
    /\ llamada.exc = ""
    /\ llamada.arg > 0
    /\ destinos[llamada.idx].inventario
          = previo.destinos[llamada.idx].inventario + llamada.arg

\* C4: every vehicle, right after its construction with any arguments and
\* after any calls of set_carga and set_posicion, has 0 <= carga <= capacidad.
C4_CargaEnRango ==
    \A i \in DOMAIN vehiculos :
        0 <= vehiculos[i].carga /\ vehiculos[i].carga <= vehiculos[i].capacidad

\* C5: set_carga(v) with v > capacidad raises and leaves the vehicle's load
\* and position as they were; set_inventario(x) with x < 0 raises and leaves
\* the destination's inventory, coverage time and demand as they were.
C5_FalloSinEfecto ==
    /\ (llamada.op = "set_carga"
          /\ llamada.arg > previo.vehiculos[llamada.idx].capacidad)
         => /\ llamada.exc = "ValueError"
            /\ vehiculos[llamada.idx].carga = previo.vehiculos[llamada.idx].carga
            /\ vehiculos[llamada.idx].posicion
                  = previo.vehiculos[llamada.idx].posicion
    /\ (llamada.op = "set_inventario" /\ llamada.arg < 0)
         => /\ llamada.exc = "ValueError"
            /\ destinos[llamada.idx].inventario
                  = previo.destinos[llamada.idx].inventario
            /\ destinos[llamada.idx].tiempo_cobertura
                  = previo.destinos[llamada.idx].tiempo_cobertura
            /\ destinos[llamada.idx].demanda
                  = previo.destinos[llamada.idx].demanda

\* C5 witness: a set_carga above the capacity, refused on a vehicle that
\* carries a load within its capacity.
C5_Testigo ==
    /\ llamada.op = "set_carga"
    /\ llamada.exc = "ValueError"
    /\ llamada.arg > vehiculos[llamada.idx].capacidad
    /\ vehiculos[llamada.idx].carga > 0
    /\ vehiculos[llamada.idx].carga <= vehiculos[llamada.idx].capacidad

C7_FiltroFlota ==
    PasoFiltros =>
        LET cob == ultimo.cobertura
            cand == ultimo.candidatos
            nv == Len(previo.vehiculos)
        IN /\ Len(cand) <= Min(nv, Len(cob))
           /\ nv < Len(cob) =>
                /\ Len(cand) = nv
                /\ Rango(cand) \subseteq Rango(cob)
                /\ \A x \in Rango(cob) \ Rango(cand) : \A k \in Rango(cand) :
                      k.tiempo_cobertura.num * x.tiempo_cobertura.den
                         <= x.tiempo_cobertura.num * k.tiempo_cobertura.den
           /\ nv >= Len(cob) => cand = cob

\* C7 witness: fewer vehicles than under-covered destinations, and a
\* discarded destination with a larger coverage time than a kept one that
\* comes after it in the list.
C7_Testigo ==
    /\ PasoFiltros
    /\ Len(previo.vehiculos) < Len(ultimo.cobertura)
    /\ \E i, j \in DOMAIN ultimo.cobertura :
          /\ i < j
          /\ ultimo.cobertura[i] \notin Rango(ultimo.candidatos)
          /\ ultimo.cobertura[j] \in Rango(ultimo.candidatos)
          /\ FracLt(ultimo.cobertura[j].tiempo_cobertura,
                    ultimo.cobertura[i].tiempo_cobertura)

\* The pairs whose indicator equals the indicator of pair c.
Empatados(c) ==
    {o \in DOMAIN ultimo.params_FO.val :
        FracEq(ultimo.params_FO.val[o], ultimo.params_FO.val[c])}

\* What C8 says of the one-destination assignment apart from the ties.
C8_MaximoUnico ==
    /\ ultimo.etapa = "Updating"
    /\ Len(ultimo.Ruteo.claves) = 1
    /\ Cardinality(Realizados) = 1
    /\ \A c \in Realizados :
          /\ c \in DOMAIN ultimo.params_FO.val
          /\ \A o \in DOMAIN ultimo.params_FO.val :
                FracLe(ultimo.params_FO.val[o], ultimo.params_FO.val[c])
          /\ ultimo.Val_Obj_opt = ultimo.params_FO.val[c]

\* C8 as stated: with one destination left, the assignment realizes exactly
\* one pair, of maximum indicator, its indicator is the objective value, and
\* among the pairs that tie for the maximum the vehicle with the lowest id
\* is selected.
C8_EmpatePorId ==
    (LlegoAAsignar /\ Len(ultimo.candidatos) = 1) =>
        /\ C8_MaximoUnico
        /\ \A c \in Realizados : \A o \in Empatados(c) : c[1] <= o[1]

\* C8 amended: as stated, but among the pairs that tie for the maximum the
\* vehicle that comes first in the vehicle list is selected.
C8_EmpatePorLista ==
    (LlegoAAsignar /\ Len(ultimo.candidatos) = 1) =>
        /\ C8_MaximoUnico
        /\ \A c \in Realizados : \A o \in Empatados(c) :
              LugarEnFlota(c[1]) <= LugarEnFlota(o[1])

\* C8 witness: one destination left, two vehicles tie for the maximum and
\* the one selected comes first in the list and has the higher id.
C8_Testigo ==
    /\ ultimo.etapa = "Updating"
    /\ Len(ultimo.candidatos) = 1
    /\ \E c \in Realizados : \E o \in Empatados(c) :
          /\ o # c
          /\ LugarEnFlota(c[1]) < LugarEnFlota(o[1])
          /\ c[1] > o[1]
          /\ ultimo.params_FO.val[c].num > 0

\* C9: with two or more candidate destinations and as many vehicles, the
\* assignment returns a matching over all pairs in which every vehicle is
\* realized with exactly one destination and every destination with exactly
\* one vehicle, of maximum total indicator among the perfect matchings.
C9_EmparejamientoPerfecto ==
    (LlegoAAsignar /\ Len(ultimo.candidatos) >= 2
        /\ Len(previo.vehiculos) = Len(ultimo.candidatos)) =>
        LET vids == {v.identif : v \in Rango(previo.vehiculos)}
            dids == {d.identif : d \in Rango(ultimo.candidatos)}
            vseq == [i \in DOMAIN previo.vehiculos |-> previo.vehiculos[i].identif]
            dseq == [j \in DOMAIN ultimo.candidatos |-> ultimo.candidatos[j].identif]
        IN /\ ultimo.etapa = "Updating"
           /\ ultimo.exc = ""
           /\ DOMAIN ultimo.Ruteo.val = vids \X dids
           /\ \A i \in vids : Cardinality({j \in dids : <<i, j>> \in Realizados}) = 1
           /\ \A j \in dids : Cardinality({i \in vids : <<i, j>> \in Realizados}) = 1
           /\ \A m \in Emparejamientos(vseq, dseq) :
                 FracLe(FuncionObjetivo(m, ultimo.params_FO, vids),
                        FuncionObjetivo([i \in vids |->
                                            CHOOSE j \in dids : <<i, j>> \in Realizados],
                                        ultimo.params_FO, vids))

\* A pair of the period whose distance entry is missing or zero.
DistanciaMala(v, d) ==
    \/ <<v.posicion, d.identif>> \notin DOMAIN matrix_distancias
    \/ matrix_distancias[<<v.posicion, d.identif>>] = 0

\* C10: a period whose indicators need a missing or a zero distance, or whose
\* assignment step fails, ends the run with the exception, and leaves every
\* vehicle and every destination as the period found them.
C10_TodoONada ==
    /\ (PasoFiltros
          /\ \E v \in Rango(previo.vehiculos) : \E d \in Rango(ultimo.candidatos) :
                DistanciaMala(v, d))
         => /\ ultimo.etapa = "Computing"
            /\ ultimo.exc \in {"KeyError", "ZeroDivisionError"}
    /\ ultimo.etapa \in {"Computing", "Solving"}
         => /\ estado = "Error"
            /\ ultimo.exc # ""
            /\ SinCambios

\* C10 witness: a vehicle left at a destination by an earlier period, and a
\* period that failed for the missing distance from there.
C10_Testigo ==
    /\ ultimo.etapa = "Computing"
    /\ ultimo.exc = "KeyError"
    /\ estado = "Error"
    /\ \E v \in Rango(previo.vehiculos) : v.posicion # 0

\* The fields of a vehicle and of a destination that no operation assigns.
FijosVehiculo(v) == <<v.identif, v.capacidad>>
FijosDestino(d) == <<d.identif, d.consumo_promedio, d.tiempo_cobertura_plan>>

\* C11: a period's update changes only matched entities: a vehicle in no
\* realized pair keeps its load and position, a destination in no realized
\* pair keeps its inventory, coverage time and demand, and no period changes
\* the id, capacity, consumption rate or planned coverage time of anything.
C11_SoloEmparejados ==
    /\ Len(vehiculos) = Len(previo.vehiculos)
    /\ Len(destinos) = Len(previo.destinos)
    /\ \A i \in DOMAIN vehiculos :
          FijosVehiculo(vehiculos[i]) = FijosVehiculo(previo.vehiculos[i])
    /\ \A j \in DOMAIN destinos :
          FijosDestino(destinos[j]) = FijosDestino(previo.destinos[j])
    /\ ultimo.etapa = "Updating" =>
          /\ \A i \in DOMAIN vehiculos :
                (\A c \in Realizados : c[1] # vehiculos[i].identif)
                   => /\ vehiculos[i].carga = previo.vehiculos[i].carga
                      /\ vehiculos[i].posicion = previo.vehiculos[i].posicion
          /\ \A j \in DOMAIN destinos :
                (\A c \in Realizados : c[2] # destinos[j].identif)
                   => /\ destinos[j].inventario = previo.destinos[j].inventario
                      /\ destinos[j].tiempo_cobertura
                            = previo.destinos[j].tiempo_cobertura
                      /\ destinos[j].demanda = previo.destinos[j].demanda

\* C11 witness: an update that delivered cargo and moved or refilled its
\* vehicle while another vehicle and another destination stood by.
C11_Testigo ==
    /\ ultimo.etapa = "Updating"
    /\ \E c \in Realizados :
          /\ PorId(destinos, c[2]).inventario
                > PorId(previo.destinos, c[2]).inventario
          /\ PorId(vehiculos, c[1]) # PorId(previo.vehiculos, c[1])
    /\ \E i \in DOMAIN vehiculos :
          \A c \in Realizados : c[1] # vehiculos[i].identif
    /\ \E j \in DOMAIN destinos :
          \A c \in Realizados : c[2] # destinos[j].identif

\* C12: in every period that reaches the assignment step with two or more
\* candidate destinations, the fleet has as many vehicles as there are
\* candidates, and the optimizer finds a perfect matching (the period does
\* not fail for want of an optimal solution).
C12_FlotaIgualACandidatos ==
    (LlegoAAsignar /\ Len(ultimo.candidatos) >= 2) =>
        /\ Len(previo.vehiculos) = Len(ultimo.candidatos)
        /\ Emparejamientos(
              [i \in DOMAIN previo.vehiculos |-> previo.vehiculos[i].identif],
              [j \in DOMAIN ultimo.candidatos |-> ultimo.candidatos[j].identif])
             # {}
        /\ ultimo.plan_distribution # Vacio

\* C13: the planning loop terminates: every run from valid vehicles and
\* destinations eventually reaches Terminal (the coverage filter signals
\* Stop) or halts with an error; it does not go through periods forever.
C13_Termina == <>(estado \in {"Terminal", "Error"})

\* The vehicles of a fleet that stand at a destination, not at the depot.
Estacionados(flota) == {i \in DOMAIN flota : flota[i].posicion # 0}

\* C14: a delivery never overfills a destination.  In every state of the
\* loop, a destination that has received cargo has inventario <=
\* consumo_promedio * tiempo_cobertura_plan (demanda >= 0); a vehicle parked
\* at a destination holds a leftover load and that destination's demand is
\* exactly 0, so the coverage filter leaves it out; and no period has among
\* its candidates, or assigns a vehicle to, the destination where a vehicle
\* was parked when the period began.
C14_SinSobrellenar ==
    /\ \A j \in DOMAIN destinos :
          destinos[j].identif \in ultimo.entregados
             => /\ destinos[j].inventario
                      <= destinos[j].consumo_promedio
                            * destinos[j].tiempo_cobertura_plan
                /\ destinos[j].demanda >= 0
    /\ \A i \in Estacionados(vehiculos) :
          /\ vehiculos[i].carga > 0
          /\ \E j \in DOMAIN destinos :
                /\ destinos[j].identif = vehiculos[i].posicion
                /\ destinos[j].demanda = 0
                /\ destinos[j] \notin
                      Rango(reduccion_destinosXcobertura(destinos).lista)
    /\ ultimo.etapa # "Inicio" =>
          \A i \in Estacionados(previo.vehiculos) :
             /\ \A d \in Rango(ultimo.cobertura) \cup Rango(ultimo.candidatos) :
                   d.identif # previo.vehiculos[i].posicion
             /\ \A c \in Realizados :
                   c[2] # previo.vehiculos[i].posicion

====
